---- MODULE Spec2Model ----
(***************************************************************************)
(* Model of cleaned_inventory_system.py: the InventoryManager class (one   *)
(* dict, stock_data, from item to quantity, plus JSON load/save) and the   *)
(* demonstration sequence main().                                          *)
(*                                                                         *)
(* Python values are tagged records so that the dynamic type errors of the *)
(* code (0 + "ten") are outcomes of the model.  A dict is the sequence of  *)
(* its entries in insertion order, as CPython keeps it.                    *)
(***************************************************************************)
EXTENDS Integers, Sequences, FiniteSets, TLC

VARIABLES
    stock_data,   \* InventoryManager.stock_data: <<[k, v], ...>> in insertion order
    files,        \* the file system: path -> contents
    call,         \* the last completed call: arguments, exception, return value, output
    caller,       \* "main": the module's own demonstration; "client": any other user
    pc            \* main(): number of the next statement (1..10), 11 when finished

vars == <<stock_data, files, call, caller, pc>>

\* ---------------------------------------------------------------- bounds

\* Stored quantities are explored within -MaxQty .. MaxQty.
MaxQty == 1

\* ---------------------------------------------------------- Python values

PyInt(n) == [t |-> "int", n |-> n, s |-> ""]
PyStr(s) == [t |-> "str", n |-> 0, s |-> s]
None == [t |-> "None", n |-> 0, s |-> ""]

\* `not item`: None, 0 and "" are falsy.
Falsy(x) ==
    \/ x.t = "None"
    \/ x.t = "int" /\ x.n = 0
    \/ x.t = "str" /\ x.s = ""

\* a + b is defined for int + int and for str + str; anything else raises TypeError.
CanAdd(a, b) == a.t = b.t /\ a.t \in {"int", "str"}
PyAdd(a, b) == IF a.t = "int" THEN PyInt(a.n + b.n) ELSE PyStr(a.s \o b.s)

\* a - b is defined for int - int; anything else raises TypeError.
CanSub(a, b) == a.t = "int" /\ b.t = "int"
PySub(a, b) == PyInt(a.n - b.n)

\* a < b and a <= b are defined between ints (and between strs, not needed here).
CanCompare(a, b) == a.t = "int" /\ b.t = "int"
PyLt(a, b) == a.n < b.n
PyLe(a, b) == a.n <= b.n

\* ------------------------------------------------------------------ dict

Keys(d) == {d[i].k : i \in DOMAIN d}
Has(d, k) == k \in Keys(d)
Index(d, k) == CHOOSE i \in DOMAIN d : d[i].k = k
\* d[k]
DictGet(d, k) == d[Index(d, k)].v
\* d.get(k, default)
DictGetDefault(d, k, default) == IF Has(d, k) THEN DictGet(d, k) ELSE default
\* d[k] = v: an existing key keeps its place, a new key goes last.
DictSet(d, k, v) ==
    IF Has(d, k) THEN [d EXCEPT ![Index(d, k)].v = v]
    ELSE Append(d, [k |-> k, v |-> v])
\* Mutant: the entry is not deleted.
DictDel_kept(d, k) == d
\* del d[k]
DictDel(d, k) == SelectSeq(d, LAMBDA e : e.k # k)

\* ------------------------------------------------------------------ json

\* json.dump turns a str key into itself, an int key into its decimal text and
\* None into "null".
KeyToJson(k) ==
    IF k.t = "str" THEN k.s
    ELSE IF k.t = "int" THEN ToString(k.n)
    ELSE "null"

\* Mutant: entries whose value is falsy (0) are not written.
json_dump_truthy(d) ==
    LET kept == SelectSeq(d, LAMBDA e : ~Falsy(e.v))
    IN  [i \in DOMAIN kept |-> [name |-> KeyToJson(kept[i].k), value |-> kept[i].v]]

\* json.dump(dict): one member per entry, in the dict's order.  Two keys that
\* become the same text (123 and "123") give two members of the same name.
json_dump(d) == [i \in DOMAIN d |-> [name |-> KeyToJson(d[i].k), value |-> d[i].v]]

\* json.load of an object: the members are stored into a dict one after the
\* other, every name a str; a repeated name overwrites the earlier value.
RECURSIVE json_load(_)
json_load(members) ==
    IF members = <<>> THEN <<>>
    ELSE LET n == Len(members)
         IN  DictSet(json_load(SubSeq(members, 1, n - 1)),
                     PyStr(members[n].name), members[n].value)

\* File contents: no file, a text that is not JSON, or a JSON object.
NoFile == [kind |-> "absent", members |-> <<>>]
NotJson == [kind |-> "text", members |-> <<>>]
JsonFile(members) == [kind |-> "json", members |-> members]

DefaultFile == "inventory.json"
Paths == {DefaultFile}

\* ----------------------------------------------------------- call records
\* What the caller of a method can observe of it: the arguments it passed, the
\* exception that reached it ("none" when the call returned), the value
\* returned (ret, or result for the list of check_low_items), the lines printed,
\* and the log list it supplied as it was before and as it is after the call.

NoLogs == [supplied |-> FALSE, entries |-> <<>>]
Logs(entries) == [supplied |-> TRUE, entries |-> entries]

Call(op) ==
    [op |-> op, item |-> None, qty |-> None, threshold |-> None, file |-> "",
     logs |-> NoLogs, logs_after |-> NoLogs, exc |-> "none", ret |-> None,
     result |-> <<>>, out |-> <<>>]

\* One print(...) call.
Line(text, k, v) == [text |-> text, k |-> k, v |-> v]

\* ------------------------------------------------------ InventoryManager
\* Every method is an operator from the store, the file system and the
\* arguments to the store and file system it leaves and the record of the call.

Outcome(self, fs, c) == [self |-> self, files |-> fs, call |-> c]

\* f"{datetime.now()}: Added {qty} of {item}": the clock reading is left out.
LogEntry(item, qty) == [text |-> "Added", qty |-> qty, item |-> item]

\* logs.append(...): the caller sees the entry only in a list it supplied; with
\* logs=None the method appends to a list of its own.
LogsAppend(logs, entry) ==
    IF logs.supplied THEN Logs(Append(logs.entries, entry)) ELSE logs

\* Mutant: the quantity is overwritten, not accumulated.
NewQty_overwrite(self, item, qty) == qty
\* self.stock_data.get(item, 0) + qty
NewQty(self, item, qty) == PyAdd(DictGetDefault(self, item, PyInt(0)), qty)

\* Mutant: no check of the item name.
add_item_unchecked(self, fs, item, qty, logs) ==
    LET c == [Call("add_item") EXCEPT !.item = item, !.qty = qty, !.logs = logs,
                                      !.logs_after = logs]
    IN  IF ~CanAdd(DictGetDefault(self, item, PyInt(0)), qty)
        THEN Outcome(self, fs, [c EXCEPT !.exc = "TypeError"])
        ELSE Outcome(DictSet(self, item, NewQty(self, item, qty)), fs,
                     [c EXCEPT !.logs_after = LogsAppend(logs, LogEntry(item, qty))])

add_item(self, fs, item, qty, logs) ==
    LET c == [Call("add_item") EXCEPT !.item = item, !.qty = qty, !.logs = logs,
                                      !.logs_after = logs]
    IN  IF Falsy(item) THEN Outcome(self, fs, c)
        ELSE IF ~CanAdd(DictGetDefault(self, item, PyInt(0)), qty)
        THEN Outcome(self, fs, [c EXCEPT !.exc = "TypeError"])
        ELSE Outcome(DictSet(self, item, NewQty(self, item, qty)), fs,
                     [c EXCEPT !.logs_after = LogsAppend(logs, LogEntry(item, qty))])

\* Mutant: only a negative quantity deletes the entry.
ShouldDelete_negative(v) == PyLt(v, PyInt(0))
\* if self.stock_data[item] <= 0
ShouldDelete(v) == PyLe(v, PyInt(0))

\* print(f"Error: {item} not found in inventory.")
NotFoundNotice(item) == Line("Error: not found in inventory.", item, None)

\* Mutant: the KeyError of a missing item is not caught.
remove_item_uncaught(self, fs, item, qty) ==
    LET c == [Call("remove_item") EXCEPT !.item = item, !.qty = qty]
    IN  IF ~Has(self, item) THEN Outcome(self, fs, [c EXCEPT !.exc = "KeyError"])
        ELSE IF ~CanSub(DictGet(self, item), qty)
        THEN Outcome(self, fs, [c EXCEPT !.exc = "TypeError"])
        ELSE LET v == PySub(DictGet(self, item), qty)
                 stored == DictSet(self, item, v)
             IN  IF ShouldDelete(v) THEN Outcome(DictDel(stored, item), fs, c)
                 ELSE Outcome(stored, fs, c)

remove_item(self, fs, item, qty) ==
    LET c == [Call("remove_item") EXCEPT !.item = item, !.qty = qty]
    IN  IF ~Has(self, item)
        THEN \* KeyError from self.stock_data[item], caught
             Outcome(self, fs, [c EXCEPT !.out = <<NotFoundNotice(item)>>])
        ELSE IF ~CanSub(DictGet(self, item), qty)
        THEN Outcome(self, fs, [c EXCEPT !.exc = "TypeError"])
        ELSE LET v == PySub(DictGet(self, item), qty)
                 stored == DictSet(self, item, v)
             IN  IF ShouldDelete(v) THEN Outcome(DictDel(stored, item), fs, c)
                 ELSE Outcome(stored, fs, c)

\* Mutant: a missing item counts as 0 (stock_data.get(item, 0)).
get_qty_default(self, fs, item) ==
    Outcome(self, fs, [Call("get_qty") EXCEPT !.item = item,
                                              !.ret = DictGetDefault(self, item, PyInt(0))])

get_qty(self, fs, item) ==
    LET c == [Call("get_qty") EXCEPT !.item = item]
    IN  IF Has(self, item) THEN Outcome(self, fs, [c EXCEPT !.ret = DictGet(self, item)])
        ELSE Outcome(self, fs, [c EXCEPT !.exc = "KeyError"])

\* Mutant: the loaded object is merged into the store (stock_data.update).
RECURSIVE Update(_, _)
Update(d, e) ==
    IF e = <<>> THEN d
    ELSE Update(DictSet(d, e[1].k, e[1].v), Tail(e))

load_data_merge(self, fs, file) ==
    LET c == [Call("load_data") EXCEPT !.file = file]
    IN  IF fs[file].kind = "absent"
        THEN Outcome(self, fs, [c EXCEPT !.exc = "FileNotFoundError"])
        ELSE IF fs[file].kind # "json"
        THEN Outcome(self, fs, [c EXCEPT !.exc = "JSONDecodeError"])
        ELSE Outcome(Update(self, json_load(fs[file].members)), fs, c)

load_data(self, fs, file) ==
    LET c == [Call("load_data") EXCEPT !.file = file]
    IN  IF fs[file].kind = "absent"
        THEN Outcome(self, fs, [c EXCEPT !.exc = "FileNotFoundError"])
        ELSE IF fs[file].kind # "json"
        THEN Outcome(self, fs, [c EXCEPT !.exc = "JSONDecodeError"])
        ELSE Outcome(json_load(fs[file].members), fs, c)

save_data(self, fs, file) ==
    LET c == [Call("save_data") EXCEPT !.file = file]
    IN  Outcome(self, [fs EXCEPT ![file] = JsonFile(json_dump(self))], c)

print_data(self, fs) ==
    LET c == Call("print_data")
    IN  Outcome(self, fs,
                [c EXCEPT !.out = <<Line("Items Report", None, None)>>
                                  \o [i \in DOMAIN self |-> Line("->", self[i].k, self[i].v)]])

\* Mutant: an item at the threshold counts as low.
IsLow_or_equal(v, threshold) == PyLe(v, threshold)
\* if self.stock_data[i] < threshold
IsLow(v, threshold) == PyLt(v, threshold)

check_low_items(self, fs, threshold) ==
    LET c == [Call("check_low_items") EXCEPT !.threshold = threshold]
        low == SelectSeq(self, LAMBDA e : IsLow(e.v, threshold))
    IN  IF \E i \in DOMAIN self : ~CanCompare(self[i].v, threshold)
        THEN Outcome(self, fs, [c EXCEPT !.exc = "TypeError"])
        ELSE Outcome(self, fs, [c EXCEPT !.result = [i \in DOMAIN low |-> low[i].k]])

\* The default of check_low_items(threshold=5).
DefaultThreshold == 5

\* ------------------------------------------------------------------ main

\* print(label, value) around a call of main(): printed only when the call
\* returned.
Printed(r, label) ==
    IF r.call.exc = "none"
    THEN [r EXCEPT !.call.out = Append(r.call.out, Line(label, None, r.call.ret))]
    ELSE r

MainLast == 10

\* Statement number n of main().
main(n, self, fs) ==
    CASE n = 1 -> add_item(self, fs, PyStr("apple"), PyInt(10), NoLogs)
      [] n = 2 -> add_item(self, fs, PyStr("banana"), PyInt(-2), NoLogs)
      [] n = 3 -> add_item(self, fs, PyInt(123), PyStr("ten"), NoLogs)
      [] n = 4 -> remove_item(self, fs, PyStr("apple"), PyInt(3))
      [] n = 5 -> remove_item(self, fs, PyStr("orange"), PyInt(1))
      [] n = 6 -> Printed(get_qty(self, fs, PyStr("apple")), "Apple stock:")
      [] n = 7 -> Printed(check_low_items(self, fs, PyInt(DefaultThreshold)), "Low items:")
      [] n = 8 -> save_data(self, fs, DefaultFile)
      [] n = 9 -> load_data(self, fs, DefaultFile)
      [] OTHER -> print_data(self, fs)

\* ---------------------------------------------------------------- inputs

Items == {PyStr("123"), PyInt(123), PyStr("")}
Qtys == {PyInt(n) : n \in -MaxQty .. (MaxQty + 1)} \cup {PyStr("ten")}
Thresholds == {PyInt(0), PyInt(1), PyInt(DefaultThreshold)}
LogLists == {NoLogs, Logs(<<LogEntry(PyStr("123"), PyInt(1))>>)}

InRange(d) == \A i \in DOMAIN d : d[i].v.t = "int" => d[i].v.n \in -MaxQty .. MaxQty

\* --------------------------------------------------------------- actions

Init ==
    /\ stock_data = <<>>
    /\ files = [p \in Paths |-> NoFile]
    /\ call = Call("__init__")
    /\ caller \in {"main", "client"}
    /\ pc = 1

Do(r) ==
    /\ InRange(r.self)
    /\ stock_data' = r.self
    /\ files' = r.files
    /\ call' = r.call

AddItem ==
    /\ caller = "client"
    /\ \E item \in Items, qty \in Qtys, logs \in LogLists :
           Do(add_item(stock_data, files, item, qty, logs))
    /\ UNCHANGED <<caller, pc>>

RemoveItem ==
    /\ caller = "client"
    /\ \E item \in Items, qty \in Qtys : Do(remove_item(stock_data, files, item, qty))
    /\ UNCHANGED <<caller, pc>>

GetQty ==
    /\ caller = "client"
    /\ \E item \in Items : Do(get_qty(stock_data, files, item))
    /\ UNCHANGED <<caller, pc>>

LoadData ==
    /\ caller = "client"
    /\ \E file \in Paths : Do(load_data(stock_data, files, file))
    /\ UNCHANGED <<caller, pc>>

SaveData ==
    /\ caller = "client"
    /\ \E file \in Paths : Do(save_data(stock_data, files, file))
    /\ UNCHANGED <<caller, pc>>

PrintData ==
    /\ caller = "client"
    /\ Do(print_data(stock_data, files))
    /\ UNCHANGED <<caller, pc>>

CheckLowItems ==
    /\ caller = "client"
    /\ \E threshold \in Thresholds : Do(check_low_items(stock_data, files, threshold))
    /\ UNCHANGED <<caller, pc>>

\* Something outside the program removes the file or leaves a text in it that
\* is not JSON.
Environment ==
    /\ caller = "client"
    /\ \E file \in Paths, contents \in {NoFile, NotJson} :
           /\ files[file] # contents
           /\ files' = [files EXCEPT ![file] = contents]
    /\ call' = Call("environment")
    /\ UNCHANGED <<stock_data, caller, pc>>

\* main() runs its statements in order; an exception that reaches main() is
\* caught nowhere and ends the process.
Main ==
    /\ caller = "main"
    /\ pc <= MainLast
    /\ call.exc = "none"
    /\ LET r == main(pc, stock_data, files)
       IN  /\ stock_data' = r.self
           /\ files' = r.files
           /\ call' = r.call
           /\ pc' = IF r.call.exc = "none" THEN pc + 1 ELSE pc
    /\ UNCHANGED caller

Next ==
    \/ AddItem
    \/ RemoveItem
    \/ GetQty
    \/ LoadData
    \/ SaveData
    \/ PrintData
    \/ CheckLowItems
    \/ Environment
    \/ Main

Spec == Init /\ [][Next]_vars

\* A client that only adds and removes, from the empty store.
InitAddRemove == Init /\ caller = "client"
NextAddRemove == AddItem \/ RemoveItem
SpecAddRemove == InitAddRemove /\ [][NextAddRemove]_vars

\* ---------------------------------------------------------------- claims
\* A step of a method is a step whose new call record names the method; the
\* arguments are those of call', the store before the call is stock_data and
\* the store after it stock_data'.

IntValued(d) == \A i \in DOMAIN d : d[i].v.t = "int"
TextKeyed(d) == \A i \in DOMAIN d : d[i].k.t = "str"

\* Every entry but that of item is the same before and after the step.
OthersUnchanged(item) ==
    \A k \in (Keys(stock_data) \cup Keys(stock_data')) \ {item} :
        /\ Has(stock_data, k)
        /\ Has(stock_data', k)
        /\ DictGet(stock_data', k) = DictGet(stock_data, k)

SameMap(a, b) == Keys(a) = Keys(b) /\ \A k \in Keys(a) : DictGet(a, k) = DictGet(b, k)

\* C1: remove_item(item, qty) on an item present with quantity n and an integer
\* qty returns normally and leaves the item absent when n - qty <= 0, present
\* with exactly n - qty otherwise; every other entry is unchanged.
C1_RemoveDeletesOnNonPositive ==
    [][(/\ call'.op = "remove_item"
        /\ Has(stock_data, call'.item)
        /\ call'.qty.t = "int"
        /\ DictGet(stock_data, call'.item).t = "int")
       => LET item == call'.item
              left == DictGet(stock_data, item).n - call'.qty.n
          IN  /\ call'.exc = "none"
              /\ call'.out = <<>>
              /\ IF left <= 0 THEN ~Has(stock_data', item)
                 ELSE Has(stock_data', item) /\ DictGet(stock_data', item) = PyInt(left)
              /\ OthersUnchanged(item)]_vars

\* A removal of more than is there (qty above every stored quantity) that found
\* the item and left it absent.
C1_Witness ==
    /\ call.op = "remove_item"
    /\ call.exc = "none"
    /\ call.out = <<>>
    /\ call.qty = PyInt(MaxQty + 1)
    /\ ~Has(stock_data, call.item)
    /\ stock_data # <<>>

\* C2: add_item(item, qty) with a non-empty name and an integer qty sets the
\* item's quantity to its previous quantity (0 if absent) plus qty and leaves
\* every other entry unchanged; so add_item(item, q1) on an item with no
\* quantity yet, followed by add_item(item, q2), leaves q1 + q2.
C2_AddAccumulates ==
    [][(/\ call'.op = "add_item"
        /\ ~Falsy(call'.item)
        /\ call'.qty.t = "int"
        /\ DictGetDefault(stock_data, call'.item, PyInt(0)).t = "int")
       => LET item == call'.item
              before == DictGetDefault(stock_data, item, PyInt(0)).n
          IN  /\ call'.exc = "none"
              /\ Has(stock_data', item)
              /\ DictGet(stock_data', item) = PyInt(before + call'.qty.n)
              /\ OthersUnchanged(item)
              /\ (/\ call.op = "add_item"
                  /\ call.exc = "none"
                  /\ call.item = item
                  /\ Has(stock_data, item)
                  /\ DictGet(stock_data, item) = call.qty)
                 => DictGet(stock_data', item) = PyInt(call.qty.n + call'.qty.n)]_vars

\* An add of a negative quantity onto a quantity that was there.
C2_Witness ==
    /\ call.op = "add_item"
    /\ call.exc = "none"
    /\ call.qty.t = "int"
    /\ call.qty.n < 0
    /\ Has(stock_data, call.item)
    /\ DictGet(stock_data, call.item) # call.qty

\* C3: remove_item on an item that is not in the store raises nothing, prints
\* the 'not found' notice and leaves the store (and the files) as they were,
\* whatever qty is.
C3_RemoveMissingItem ==
    [][(call'.op = "remove_item" /\ ~Has(stock_data, call'.item))
       => /\ call'.exc = "none"
          /\ call'.out = <<Line("Error: not found in inventory.", call'.item, None)>>
          /\ stock_data' = stock_data
          /\ files' = files]_vars

\* A removal of a missing item from a store that holds another item.
C3_Witness ==
    /\ call.op = "remove_item"
    /\ call.out # <<>>
    /\ stock_data # <<>>
    /\ ~Has(stock_data, call.item)

\* C4: get_qty(item) returns the stored quantity of an item that is present and
\* raises KeyError to the caller for an item that is absent; the store is
\* unchanged either way.
C4_QuantityLookup ==
    [][call'.op = "get_qty"
       => /\ stock_data' = stock_data
          /\ IF Has(stock_data, call'.item)
             THEN call'.exc = "none" /\ call'.ret = DictGet(stock_data, call'.item)
             ELSE call'.exc = "KeyError"]_vars

\* A lookup of a missing item in a store that holds another item.
C4_Witness ==
    /\ call.op = "get_qty"
    /\ call.exc = "KeyError"
    /\ stock_data # <<>>

\* C5: save_data(path) followed by load_data(path), on a store of text names
\* and integer quantities, succeeds and leaves the same map: the same keys, the
\* same quantity for every key.
C5_RoundTrip ==
    [][(/\ call.op = "save_data"
        /\ call.exc = "none"
        /\ call'.op = "load_data"
        /\ call'.file = call.file
        /\ TextKeyed(stock_data)
        /\ IntValued(stock_data))
       => call'.exc = "none" /\ SameMap(stock_data', stock_data)]_vars

\* A load that gave a non-empty store of text names whose dump is the file.
C5_Witness ==
    /\ call.op = "load_data"
    /\ call.exc = "none"
    /\ stock_data # <<>>
    /\ TextKeyed(stock_data)
    /\ \E i \in DOMAIN stock_data : stock_data[i].v.n <= 0
    /\ files[call.file] = JsonFile(json_dump(stock_data))

\* C6: a successful load_data(path) leaves exactly the object of the file: a key
\* is in the store iff it is the name of a member, with the value of the (last)
\* member of that name; nothing of the earlier store survives.
C6_LoadReplaces ==
    [][(call'.op = "load_data" /\ call'.exc = "none")
       => LET F == files[call'.file].members
              Last(i) == \A j \in DOMAIN F : j > i => F[j].name # F[i].name
          IN  /\ files[call'.file].kind = "json"
              /\ files' = files
              /\ Keys(stock_data') = {PyStr(F[i].name) : i \in DOMAIN F}
              /\ \A i \in DOMAIN F :
                     Last(i) => DictGet(stock_data', PyStr(F[i].name)) = F[i].value]_vars

\* A load of an object that two keys of the saved store (123 and "123") gave
\* the same name.
C6_Witness ==
    /\ call.op = "load_data"
    /\ call.exc = "none"
    /\ Len(files[call.file].members) = 2
    /\ Len(stock_data) = 1

\* C7: check_low_items(threshold), on integer quantities and an integer
\* threshold, returns exactly the names whose quantity is strictly below the
\* threshold, each once, and leaves the store unchanged.
C7_LowStockFilter ==
    [][(/\ call'.op = "check_low_items"
        /\ call'.threshold.t = "int"
        /\ IntValued(stock_data))
       => LET result == call'.result
          IN  /\ call'.exc = "none"
              /\ stock_data' = stock_data
              /\ {result[i] : i \in DOMAIN result}
                     = {k \in Keys(stock_data) :
                            DictGet(stock_data, k).n < call'.threshold.n}
              /\ \A i, j \in DOMAIN result : result[i] = result[j] => i = j]_vars

\* Two items, one exactly at the threshold and left out, one below it.
C7_Witness ==
    /\ call.op = "check_low_items"
    /\ call.exc = "none"
    /\ Len(stock_data) = 2
    /\ Len(call.result) = 1
    /\ \E i \in DOMAIN stock_data : stock_data[i].v = call.threshold

\* C8: add_item with a falsy item name leaves the store unchanged, appends
\* nothing to the supplied log list and raises nothing, whatever qty is.
C8_AddIgnoresEmptyName ==
    [][(call'.op = "add_item" /\ Falsy(call'.item))
       => /\ stock_data' = stock_data
          /\ call'.logs_after = call'.logs
          /\ call'.exc = "none"]_vars

\* An add of a quantity that is no number under the empty name, with a log
\* list supplied, on a store that holds something.
C8_Witness ==
    /\ call.op = "add_item"
    /\ Falsy(call.item)
    /\ call.qty.t = "str"
    /\ call.logs.supplied
    /\ stock_data # <<>>

\* C9 as stated: after any sequence of add_item and remove_item calls from the
\* empty store no entry has a quantity <= 0.
C9_NoNonPositiveEntry ==
    \A i \in DOMAIN stock_data : stock_data[i].v.t = "int" => stock_data[i].v.n > 0

\* C9 as amended: only remove_item deletes.  An entry has a quantity <= 0 after
\* a call only if that call was add_item on its item or the entry was so
\* before; remove_item never leaves the item it was called on at <= 0.
C9_NonPositiveOnlyFromAdd ==
    [][\A k \in Keys(stock_data') :
           (DictGet(stock_data', k).t = "int" /\ DictGet(stock_data', k).n <= 0)
           => \/ call'.op = "add_item" /\ call'.item = k
              \/ Has(stock_data, k) /\ DictGet(stock_data, k) = DictGet(stock_data', k)]_vars

\* A removal has run and a negative quantity is still in the store.
C9_Witness ==
    /\ call.op = "remove_item"
    /\ call.exc = "none"
    /\ call.out = <<>>
    /\ \E i \in DOMAIN stock_data : stock_data[i].v.n < 0

\* C10: main() runs its ten statements to the end with no uncaught failure:
\* no statement of main() ends in an exception, and get_qty("apple") (the
\* sixth statement) yields 7.
C10_MainRunsToCompletion ==
    caller = "main"
    => /\ call.exc = "none"
       /\ (pc = 7 => call.ret = PyInt(7))

====
